---- MODULE Spec2Model ----
(***************************************************************************)
(* Model of microfeedback-core's request handler (src/index.js).           *)
(*                                                                         *)
(* The handler is handleErrors(cors(dispatcher)).  A request runs as one   *)
(* async function; the code between two awaits is one atomic step of the   *)
(* single-threaded event loop, so there is one action per continuation:    *)
(*   Request           arrival up to the first await (GET and the 405      *)
(*                     branch finish here, POST suspends in json(req))     *)
(*   JsonResolve/Reject        the body parser settles                     *)
(*   PerspectiveResolve/Reject the toxicity checker settles                *)
(*   AkismetResolve/Reject     the spam checker settles                    *)
(*   BackendResolve/Reject     the backend delegate settles                *)
(*   SetEnv            the process environment is changed                  *)
(*                                                                         *)
(* JavaScript values are tagged records so that truthiness, property       *)
(* access on null/undefined and the || and && operators behave as in the   *)
(* source.                                                                 *)
(***************************************************************************)
EXTENDS Naturals, Sequences, FiniteSets, TLC

VARIABLES
    env,                 \* process.env (the variables index.js reads)
    perspectiveEnabled,  \* module constant, index.js line 9
    akismetEnabled,      \* module constant, index.js line 10
    attributes,          \* second argument of the factory, index.js line 42
    allowSpamAtStart,    \* history: the allow-spam override as process.env
                         \* gave it when the module was loaded
    req                  \* per request: position, locals, response handle

vars == <<env, perspectiveEnabled, akismetEnabled, attributes,
          allowSpamAtStart, req>>

\* Number of request slots of the model.
NumReq == 1

Requests == 1..NumReq

----------------------------------------------------------------------------
\* JavaScript values

Undefined == [t |-> "undefined"]
Null == [t |-> "null"]
Str(s) == [t |-> "string", v |-> s]
Num(n) == [t |-> "number", v |-> n]
Bool(b) == [t |-> "boolean", v |-> b]
Obj(fields) == [t |-> "object", f |-> fields]

\* ToBoolean, as applied by !x, x && y, x || y and Boolean(x).
Truthy(v) ==
    CASE v.t = "undefined" -> FALSE
      [] v.t = "null" -> FALSE
      [] v.t = "string" -> v.v # ""
      [] v.t = "number" -> v.v # 0
      [] v.t = "boolean" -> v.v
      [] OTHER -> TRUE

\* Property access on null or undefined throws a TypeError.
Nullish(v) == v.t \in {"undefined", "null"}

\* o.k for a non-nullish o: an own field of an object, undefined otherwise.
Get(o, k) ==
    IF o.t = "object" /\ k \in DOMAIN o.f THEN o.f[k] ELSE Undefined

\* a && b and a || b
And(a, b) == IF Truthy(a) THEN b ELSE a
Or(a, b) == IF Truthy(a) THEN a ELSE b

\* a !== b
StrictNe(a, b) == a # b

\* micro's createError(code, message): an Error carrying statusCode.
createError(code, message) ==
    Obj([statusCode |-> Num(code), message |-> Str(message)])

\* An Error raised by the runtime (no statusCode).
TypeError(message) == Obj([message |-> Str(message)])

----------------------------------------------------------------------------
\* Input domains

Methods == {"GET", "POST", "OPTIONS", "PUT", "DELETE"}

\* Values of the environment variables.
EnvNames == {"PERSPECTIVE_API_KEY", "PERSPECTIVE_ENABLED",
             "AKISMET_API_KEY", "AKISMET_ENABLED", "ALLOW_SPAM"}

EnvValues(k) ==
    CASE k \in {"PERSPECTIVE_API_KEY", "AKISMET_API_KEY"} ->
            {Undefined, Str("key")}
      [] k \in {"PERSPECTIVE_ENABLED", "AKISMET_ENABLED"} ->
            {Undefined, Str("false")}
      [] OTHER -> {Undefined, Str("false"), Str("true")}

\* Backend attributes given at wiring time (or none).
AttributeValues == {Undefined, Obj([name |-> Str("email"), version |-> Str("1.0.0")])}

\* Parsed JSON payloads: with a truthy body (one with an extra field), with
\* body absent, empty or otherwise falsy, a non-object, and JSON null.
ValidPayloads ==
    {Obj([body |-> Str("nice app!")]),
     Obj([body |-> Str("buy pills"), name |-> Str("ann")])}

PayloadsWithoutBody ==
    {Obj([name |-> Str("ann")]),
     Obj([body |-> Str("")]),
     Obj([body |-> Num(0)]),
     Obj([body |-> Null]),
     Str("nice app!")}

Payloads == ValidPayloads \cup PayloadsWithoutBody \cup {Null}

\* Responses of the toxicity service: well formed with a score, or malformed.
Scores == {0, 1}

PerspectiveResponse(s) ==
    Obj([attributeScores |->
         Obj([TOXICITY |-> Obj([summaryScore |-> Obj([value |-> Num(s)])])])])

PerspectiveResponses ==
    {PerspectiveResponse(s) : s \in Scores} \cup {Obj([error |-> Str("quota")])}

\* Verdicts of the spam service.
SpamVerdicts == {Bool(TRUE), Bool(FALSE), Null}

\* Values a checker's promise rejects with.
CheckerErrors == {TypeError("ECONNRESET"), Undefined}

\* Values the backend returns.
BackendResults == {Obj([status |-> Str("ok")]), Str("sent")}

\* Values the backend throws: an error made by createError, a plain Error,
\* an Error whose statusCode is not a number, and a bare rejection.
BackendErrors ==
    {createError(400, "Could not send email"),
     TypeError("boom"),
     Obj([statusCode |-> Str("EFAIL"), message |-> Str("mail failed")]),
     Undefined}

----------------------------------------------------------------------------
\* The response handle and micro's send

\* A fresh response handle: the cross-origin configuration written to its
\* headers (none yet) and the send(res, ...) calls made on it, in order, each
\* with the headers the handle carried when it was made.
NewRes == [cors |-> <<>>, sends |-> <<>>]

\* A request that has not arrived yet.  input, perspective, akismet and spam
\* are the dispatcher's locals; calls counts the external calls made;
\* backendArgs lists the first argument of each backend invocation; parse,
\* tox, spamCheck and backend record what each external call settled with,
\* and error the value handleErrors caught.
Idle ==
    [pc |-> "idle", method |-> "", res |-> NewRes,
     input |-> Undefined, perspective |-> Null, akismet |-> Null,
     spam |-> Null, allowSpam |-> Undefined,
     calls |-> [json |-> 0, analyze |-> 0, checkSpam |-> 0],
     backendArgs |-> <<>>,
     parse |-> [kind |-> "none"],
     tox |-> [kind |-> "none"], spamCheck |-> [kind |-> "none"],
     backend |-> [kind |-> "none"], error |-> [kind |-> "none"]]

\* micro's send(res, status, data), called by `by`.
SendBy(st, by, status, data) ==
    [st EXCEPT !.res.sends =
        Append(@, [by |-> by, status |-> status, data |-> data,
                   headers |-> st.res.cors])]

send(st, status, data) == SendBy(st, "handler", status, data)

\* microCors({allowMethods: [...]}): the wrapper writes the cross-origin
\* headers to res and then calls the wrapped handler, whatever the method.
AllowMethods == <<"GET", "POST", "OPTIONS">>

cors(st) == [st EXCEPT !.res.cors = AllowMethods]

\* Mutant of WithAttributes: the attributes are never attached.
WithoutAttributes(fields) == Obj(fields)

\* if (attributes) { response.backend = attributes; }
WithAttributes(fields) ==
    IF Truthy(attributes) THEN Obj(fields @@ [backend |-> attributes])
    ELSE Obj(fields)

----------------------------------------------------------------------------
\* handleErrors: the catch block.  Reading error.statusCode of a null or
\* undefined error throws inside the catch block, so the handler's promise
\* rejects and the handler sends nothing.
handleErrors(st, error) ==
    LET caught == [st EXCEPT !.error = [kind |-> "caught", value |-> error]]
    IN  IF Nullish(error)
        THEN [caught EXCEPT !.pc = "rejected"]
        ELSE LET status == Or(Get(error, "statusCode"), Num(500))
             IN  [send(caught, status,
                       Obj([status |-> status,
                            message |-> Get(error, "message")]))
                    EXCEPT !.pc = "done"]

\* The catch blocks of the two checks: console.error(error.stack || error).
\* The result is the error that leaves the catch block, or Null when the
\* failure is swallowed.
CheckCatch(error) ==
    IF Nullish(error)
    THEN TypeError("Cannot read property 'stack' of undefined")
    ELSE Null

----------------------------------------------------------------------------
\* The dispatcher, one operator per stretch of code between awaits.

pkgVersion == "pkg.version"

\* Mutant of InfoResponse: the two flags are reported under each other's
\* name.
InfoResponseSwapped ==
    WithAttributes(
        [message |-> Str("Welcome to the microfeedback API. Send a POST "
                         \o "request to send feedback."),
         core |-> Obj([version |-> Str(pkgVersion),
                       perspectiveEnabled |-> Bool(akismetEnabled),
                       akismetEnabled |-> Bool(perspectiveEnabled)])])

InfoResponse ==
    WithAttributes(
        [message |-> Str("Welcome to the microfeedback API. Send a POST "
                         \o "request to send feedback."),
         core |-> Obj([version |-> Str(pkgVersion),
                       perspectiveEnabled |-> Bool(perspectiveEnabled),
                       akismetEnabled |-> Bool(akismetEnabled)])])

\* Mutant of MethodNotAllowed: the message does not name the method.
MethodNotAllowedUnnamed(method) ==
    createError(405, "Method not allowed.")

MethodNotAllowed(method) ==
    createError(405, "Method " \o method \o " not allowed.")

\* Mutant of CallBackend: only the body text is handed over as input.
CallBackendBodyOnly(st) ==
    [st EXCEPT !.pc = "backend",
               !.backendArgs = Append(@,
                    Obj([input |-> Get(st.input, "body"),
                         perspective |-> st.perspective,
                         akismet |-> st.akismet]))]

\* Mutant of CallBackend: akismet is one variable of the module, shared by
\* the requests: the backend gets what another request stored in it.
CallBackendShared(st) ==
    LET stored == {q \in DOMAIN req : req[q].akismet # Null}
    IN  [st EXCEPT !.pc = "backend",
                   !.backendArgs = Append(@,
                        Obj([input |-> st.input, perspective |-> st.perspective,
                             akismet |-> IF stored = {} THEN st.akismet
                                         ELSE req[CHOOSE q \in stored : TRUE].akismet]))]

\* await backend({input, perspective, akismet}, req, res)
CallBackend(st) ==
    [st EXCEPT !.pc = "backend",
               !.backendArgs = Append(@,
                    Obj([input |-> st.input, perspective |-> st.perspective,
                         akismet |-> st.akismet]))]

\* Mutant of AkismetStage: the backend is called without waiting for the
\* spam check.
AkismetStageSkipped(st) == CallBackend(st)

\* if (akismetEnabled) { ... await akismetClient.checkSpam(...) }
AkismetStage(st) ==
    IF akismetEnabled
    THEN [st EXCEPT !.pc = "akismet", !.calls.checkSpam = @ + 1]
    ELSE CallBackend(st)

\* Mutant of PerspectiveStage: the flag is computed from process.env when
\* the request runs.
PerspectiveStageReadsEnv(st) ==
    IF Truthy(And(env["PERSPECTIVE_API_KEY"],
                  Bool(StrictNe(env["PERSPECTIVE_ENABLED"], Str("false")))))
    THEN [st EXCEPT !.pc = "perspective", !.calls.analyze = @ + 1]
    ELSE AkismetStage(st)

\* if (perspectiveEnabled) { ... await perspectiveClient.analyze(...) }
PerspectiveStage(st) ==
    IF perspectiveEnabled
    THEN [st EXCEPT !.pc = "perspective", !.calls.analyze = @ + 1]
    ELSE AkismetStage(st)

\* if (!input.body) throw createError(422, ...)
Validate(st) ==
    IF Nullish(st.input)
    THEN handleErrors(st, TypeError("Cannot read property 'body' of null"))
    ELSE IF ~Truthy(Get(st.input, "body"))
    THEN handleErrors(st,
            createError(422, "\"body\" is required in request payload"))
    ELSE PerspectiveStage(st)

\* The dispatcher from its entry to its first await.
Dispatch(st) ==
    IF st.method = "GET"
    THEN [send(st, Num(200), InfoResponse) EXCEPT !.pc = "done"]
    ELSE IF st.method = "POST"
    THEN [st EXCEPT !.pc = "json", !.calls.json = @ + 1]
    ELSE handleErrors(st, MethodNotAllowed(st.method))

\* response.attributeScores.TOXICITY.summaryScore.value: Undefined stands
\* for the TypeError of reading a property of undefined on the way.
RECURSIVE GetPath(_, _)
GetPath(o, path) ==
    IF path = <<>> THEN [ok |-> TRUE, value |-> o]
    ELSE IF Nullish(o) THEN [ok |-> FALSE]
    ELSE GetPath(Get(o, Head(path)), Tail(path))

ToxicityPath == <<"attributeScores", "TOXICITY", "summaryScore", "value">>

\* The try block of the toxicity stage after analyze resolved.
Toxicity(st, response) ==
    LET got == GetPath(response, ToxicityPath)
    IN  IF got.ok
        THEN [st EXCEPT !.perspective = Obj([toxicity |-> got.value])]
        ELSE st

\* Boolean(process.env.ALLOW_SPAM && process.env.ALLOW_SPAM !== 'false')
AllowSpam(e) ==
    Truthy(And(e["ALLOW_SPAM"], Bool(StrictNe(e["ALLOW_SPAM"], Str("false")))))

\* Mutant of SpamGate: the override test is inverted (spam && allowSpam).
SpamGateInverted(st) ==
    IF StrictNe(st.spam, Null)
    THEN LET allowSpam == AllowSpam(env)
             read == [st EXCEPT !.allowSpam = Bool(allowSpam)]
         IN  IF Truthy(st.spam) /\ allowSpam
             THEN handleErrors(read, createError(400, "Spam detected."))
             ELSE CallBackend([read EXCEPT !.akismet = Obj([spam |-> st.spam])])
    ELSE CallBackend(st)

\* Mutant of SpamGate: the verdict is not stored in akismet.
SpamGateDropsVerdict(st) ==
    IF StrictNe(st.spam, Null)
    THEN LET allowSpam == AllowSpam(env)
             read == [st EXCEPT !.allowSpam = Bool(allowSpam)]
         IN  IF Truthy(st.spam) /\ ~allowSpam
             THEN handleErrors(read, createError(400, "Spam detected."))
             ELSE CallBackend(read)
    ELSE CallBackend(st)

\* Mutant of SpamGate: the verdict is stored without the null test.
SpamGateStoresNull(st) ==
    LET allowSpam == AllowSpam(env)
        read == [st EXCEPT !.allowSpam = Bool(allowSpam)]
    IN  IF Truthy(st.spam) /\ ~allowSpam
        THEN handleErrors(read, createError(400, "Spam detected."))
        ELSE CallBackend([read EXCEPT !.akismet = Obj([spam |-> st.spam])])

\* if (spam !== null) { ... } followed by the backend call.
SpamGate(st) ==
    IF StrictNe(st.spam, Null)
    THEN LET allowSpam == AllowSpam(env)
             read == [st EXCEPT !.allowSpam = Bool(allowSpam)]
         IN  IF Truthy(st.spam) /\ ~allowSpam
             THEN handleErrors(read, createError(400, "Spam detected."))
             ELSE CallBackend([read EXCEPT !.akismet = Obj([spam |-> st.spam])])
    ELSE CallBackend(st)

\* Mutant of Respond: the success status is 200.
RespondOk(st, result) ==
    [send(st, Num(200), WithAttributes([result |-> result]))
        EXCEPT !.pc = "done"]

\* const responseData = {result}; ... send(res, 201, responseData)
Respond(st, result) ==
    [send(st, Num(201), WithAttributes([result |-> result]))
        EXCEPT !.pc = "done"]

\* Mutant of Handler: the cross-origin headers are written after the
\* dispatcher ran.
HandlerCorsLast(st) == cors(Dispatch(st))

\* handleErrors(cors(dispatcher)) called with a request.
Handler(st) == Dispatch(cors(st))

\* Boolean(process.env.X_API_KEY && process.env.X_ENABLED !== 'false')
Enabled(e, key, flag) ==
    Truthy(And(e[key], Bool(StrictNe(e[flag], Str("false")))))

----------------------------------------------------------------------------
\* Actions

Init ==
    /\ env \in [EnvNames -> UNION {EnvValues(k) : k \in EnvNames}]
    /\ \A k \in EnvNames : env[k] \in EnvValues(k)
    /\ perspectiveEnabled = Enabled(env, "PERSPECTIVE_API_KEY", "PERSPECTIVE_ENABLED")
    /\ akismetEnabled = Enabled(env, "AKISMET_API_KEY", "AKISMET_ENABLED")
    /\ attributes \in AttributeValues
    /\ allowSpamAtStart = AllowSpam(env)
    /\ req = [r \in Requests |-> Idle]

Config == <<env, perspectiveEnabled, akismetEnabled, attributes, allowSpamAtStart>>

\* A request arrives: handleErrors calls cors, which calls the dispatcher.
Request(r, method) ==
    /\ req[r].pc = "idle"
    /\ req' = [req EXCEPT ![r] = Handler([@ EXCEPT !.method = method])]
    /\ UNCHANGED Config

\* json(req) resolves with the parsed payload.
JsonResolve(r, payload) ==
    /\ req[r].pc = "json"
    /\ req' = [req EXCEPT ![r] =
                Validate([@ EXCEPT !.input = payload,
                             !.parse = [kind |-> "resolved", value |-> payload]])]
    /\ UNCHANGED Config

\* json(req) rejects: the body is not JSON.
JsonReject(r) ==
    /\ req[r].pc = "json"
    /\ req' = [req EXCEPT ![r] =
                handleErrors([@ EXCEPT !.parse = [kind |-> "rejected"]],
                             createError(400, "Invalid JSON"))]
    /\ UNCHANGED Config

\* perspectiveClient.analyze resolves.
PerspectiveResolve(r, response) ==
    /\ req[r].pc = "perspective"
    /\ req' = [req EXCEPT ![r] =
                AkismetStage(Toxicity(
                    [@ EXCEPT !.tox = [kind |-> "resolved", value |-> response]],
                    response))]
    /\ UNCHANGED Config

\* perspectiveClient.analyze rejects.
PerspectiveReject(r, error) ==
    /\ req[r].pc = "perspective"
    /\ LET st == [req[r] EXCEPT !.tox = [kind |-> "rejected", value |-> error]]
           raised == CheckCatch(error)
       IN  req' = [req EXCEPT ![r] =
                    IF raised = Null THEN AkismetStage(st)
                    ELSE handleErrors(st, raised)]
    /\ UNCHANGED Config

\* akismetClient.checkSpam resolves.
AkismetResolve(r, verdict) ==
    /\ req[r].pc = "akismet"
    /\ req' = [req EXCEPT ![r] =
                SpamGate([@ EXCEPT !.spam = verdict,
                             !.spamCheck = [kind |-> "resolved", value |-> verdict]])]
    /\ UNCHANGED Config

\* akismetClient.checkSpam rejects.
AkismetReject(r, error) ==
    /\ req[r].pc = "akismet"
    /\ LET st == [req[r] EXCEPT !.spamCheck = [kind |-> "rejected", value |-> error]]
           raised == CheckCatch(error)
       IN  req' = [req EXCEPT ![r] =
                    IF raised = Null THEN SpamGate(st)
                    ELSE handleErrors(st, raised)]
    /\ UNCHANGED Config

\* What the backend did with the response handle before settling.
BackendSends(st, sends) ==
    IF sends THEN SendBy(st, "backend", Num(200), Str("handled")) ELSE st

\* The backend returns result (having sent a response itself or not).
BackendResolve(r, result, sends) ==
    /\ req[r].pc = "backend"
    /\ req' = [req EXCEPT ![r] =
                Respond(BackendSends(
                    [@ EXCEPT !.backend = [kind |-> "resolved", value |-> result]],
                    sends), result)]
    /\ UNCHANGED Config

\* The backend throws error (having sent a response itself or not).
BackendReject(r, error, sends) ==
    /\ req[r].pc = "backend"
    /\ req' = [req EXCEPT ![r] =
                handleErrors(BackendSends(
                    [@ EXCEPT !.backend = [kind |-> "rejected", value |-> error]],
                    sends), error)]
    /\ UNCHANGED Config

\* The process environment is changed after start.
SetEnv(k, v) ==
    /\ env[k] # v
    /\ env' = [env EXCEPT ![k] = v]
    /\ UNCHANGED <<perspectiveEnabled, akismetEnabled, attributes,
                   allowSpamAtStart, req>>

Next ==
    \/ \E r \in DOMAIN req, m \in Methods : Request(r, m)
    \/ \E r \in DOMAIN req, p \in Payloads : JsonResolve(r, p)
    \/ \E r \in DOMAIN req : JsonReject(r)
    \/ \E r \in DOMAIN req, p \in PerspectiveResponses : PerspectiveResolve(r, p)
    \/ \E r \in DOMAIN req, e \in CheckerErrors : PerspectiveReject(r, e)
    \/ \E r \in DOMAIN req, v \in SpamVerdicts : AkismetResolve(r, v)
    \/ \E r \in DOMAIN req, e \in CheckerErrors : AkismetReject(r, e)
    \/ \E r \in DOMAIN req, x \in BackendResults, s \in BOOLEAN : BackendResolve(r, x, s)
    \/ \E r \in DOMAIN req, e \in BackendErrors, s \in BOOLEAN : BackendReject(r, e, s)
    \/ \E k \in EnvNames : \E v \in EnvValues(k) : SetEnv(k, v)

Spec == Init /\ [][Next]_vars

\* Several requests in flight at once: the handler is entered once per
\* request, and each await is a point where another request may run. Both
\* checkers are enabled, and the environment changes only in ALLOW_SPAM, the
\* one variable a request reads after the module was loaded.
NumConcurrent == 2

InitConcurrent ==
    /\ env = [k \in EnvNames |->
                IF k \in {"PERSPECTIVE_API_KEY", "AKISMET_API_KEY"}
                THEN Str("key") ELSE Undefined]
    /\ perspectiveEnabled = Enabled(env, "PERSPECTIVE_API_KEY", "PERSPECTIVE_ENABLED")
    /\ akismetEnabled = Enabled(env, "AKISMET_API_KEY", "AKISMET_ENABLED")
    /\ attributes = Undefined
    /\ allowSpamAtStart = AllowSpam(env)
    /\ req = [r \in 1..NumConcurrent |-> Idle]

NextConcurrent ==
    \/ \E r \in DOMAIN req, m \in Methods : Request(r, m)
    \/ \E r \in DOMAIN req, p \in Payloads : JsonResolve(r, p)
    \/ \E r \in DOMAIN req : JsonReject(r)
    \/ \E r \in DOMAIN req, p \in PerspectiveResponses : PerspectiveResolve(r, p)
    \/ \E r \in DOMAIN req, e \in CheckerErrors : PerspectiveReject(r, e)
    \/ \E r \in DOMAIN req, v \in SpamVerdicts : AkismetResolve(r, v)
    \/ \E r \in DOMAIN req, e \in CheckerErrors : AkismetReject(r, e)
    \/ \E r \in DOMAIN req, x \in BackendResults, s \in BOOLEAN : BackendResolve(r, x, s)
    \/ \E r \in DOMAIN req, e \in BackendErrors, s \in BOOLEAN : BackendReject(r, e, s)
    \/ \E v \in {Undefined, Str("true")} : SetEnv("ALLOW_SPAM", v)

SpecConcurrent == InitConcurrent /\ [][NextConcurrent]_vars

----------------------------------------------------------------------------
\* Vocabulary of the properties

\* The send calls on the response handle as (status, body) pairs.
Responses(st) ==
    [i \in 1..Len(st.res.sends) |->
        [status |-> st.res.sends[i].status, data |-> st.res.sends[i].data]]

\* The send calls the handler itself made.
HandlerResponses(st) ==
    LET own == SelectSeq(st.res.sends, LAMBDA e : e.by = "handler")
    IN  [i \in 1..Len(own) |-> [status |-> own[i].status, data |-> own[i].data]]

\* The error envelope { status, message }.
Envelope(status, message) ==
    [status |-> Num(status),
     data |-> Obj([status |-> Num(status), message |-> Str(message)])]

\* A POST whose payload was parsed and has a truthy body.
ValidPost(st) ==
    /\ st.method = "POST"
    /\ st.parse.kind = "resolved"
    /\ ~Nullish(st.parse.value)
    /\ Truthy(Get(st.parse.value, "body"))

\* The spam checker returned a spam verdict and the override read at the
\* gate was b.
SpamVerdictWithOverride(st, b) ==
    /\ ValidPost(st)
    /\ akismetEnabled
    /\ st.spamCheck.kind = "resolved"
    /\ Truthy(st.spamCheck.value)
    /\ st.allowSpam = Bool(b)

SpamDetected == Envelope(400, "Spam detected.")

----------------------------------------------------------------------------
\* C1: a spam verdict without the allow-spam override yields exactly the
\* response 400 "Spam detected." and the backend is never invoked, whatever
\* the toxicity stage did.
SpamVerdictBlocks ==
    \A r \in DOMAIN req :
        SpamVerdictWithOverride(req[r], FALSE) =>
            /\ req[r].pc = "done"
            /\ Responses(req[r]) = <<SpamDetected>>
            /\ req[r].backendArgs = <<>>

\* C1 witness: a spam verdict blocked after the toxicity check failed.
SpamVerdictBlocksWitness ==
    \E r \in DOMAIN req :
        /\ SpamVerdictWithOverride(req[r], FALSE)
        /\ req[r].tox.kind = "rejected"
        /\ req[r].pc = "done"

\* C2: a spam verdict with the allow-spam override active is not blocked:
\* the backend is invoked with akismet = { spam: true }.
AllowedSpamReachesBackend ==
    \A r \in DOMAIN req :
        SpamVerdictWithOverride(req[r], TRUE) =>
            /\ Len(req[r].backendArgs) = 1
            /\ Get(req[r].backendArgs[1], "akismet") = Obj([spam |-> Bool(TRUE)])
            /\ \A i \in 1..Len(req[r].res.sends) :
                    Responses(req[r])[i] # SpamDetected

\* C2 witness: the backend is running on a spam verdict the override let in.
AllowedSpamReachesBackendWitness ==
    \E r \in DOMAIN req :
        /\ SpamVerdictWithOverride(req[r], TRUE)
        /\ req[r].pc = "backend"

\* C3: every parsed payload without a truthy body yields exactly the
\* response 422 '"body" is required in request payload' and the backend is
\* never invoked.
MissingBodyIs422 ==
    \A r \in DOMAIN req :
        (/\ req[r].method = "POST"
         /\ req[r].parse.kind = "resolved"
         /\ ~ValidPost(req[r])) =>
            /\ Responses(req[r]) =
                 <<Envelope(422, "\"body\" is required in request payload")>>
            /\ req[r].backendArgs = <<>>

\* The toxicity call threw or resolved with a malformed response.
ToxicityFailed(st) ==
    \/ st.tox.kind = "rejected"
    \/ st.tox.kind = "resolved" /\ ~GetPath(st.tox.value, ToxicityPath).ok

\* C4: a failed check never blocks the request: its context field is null,
\* the next stage runs, the backend is invoked, and the only error raised
\* between validation and the backend is the spam block.
CheckFailureNeverBlocks ==
    \A r \in DOMAIN req :
        /\ ToxicityFailed(req[r]) =>
              /\ req[r].perspective = Null
              /\ IF akismetEnabled THEN req[r].calls.checkSpam = 1
                 ELSE Len(req[r].backendArgs) = 1
        /\ req[r].spamCheck.kind = "rejected" =>
              /\ req[r].akismet = Null
              /\ Len(req[r].backendArgs) = 1
        /\ (/\ ValidPost(req[r])
            /\ req[r].backend.kind = "none"
            /\ req[r].error.kind = "caught") =>
              req[r].error.value = createError(400, "Spam detected.")

\* C5: a POST with a truthy body and both checks disabled invokes the
\* backend exactly once, and when the backend returns, the handler responds
\* 201 with result equal to the returned value.
PlainPostDelegates ==
    \A r \in DOMAIN req :
        (ValidPost(req[r]) /\ ~perspectiveEnabled /\ ~akismetEnabled) =>
            /\ Len(req[r].backendArgs) = 1
            /\ req[r].calls.analyze = 0 /\ req[r].calls.checkSpam = 0
            /\ req[r].backend.kind = "resolved" =>
                  /\ req[r].pc = "done"
                  /\ Len(HandlerResponses(req[r])) = 1
                  /\ HandlerResponses(req[r])[1].status = Num(201)
                  /\ Get(HandlerResponses(req[r])[1].data, "result")
                        = req[r].backend.value

\* C5 witness: such a POST answered after the backend returned.
PlainPostDelegatesWitness ==
    \E r \in DOMAIN req :
        /\ ValidPost(req[r]) /\ ~perspectiveEnabled /\ ~akismetEnabled
        /\ req[r].backend.kind = "resolved"
        /\ req[r].backend.value = Obj([status |-> Str("ok")])
        /\ req[r].pc = "done"

\* C6: exactly one response per request: never a second send on a response
\* handle, one send once the handler has finished, and for every caught
\* error exactly one { status, message } envelope.
OneResponsePerRequest ==
    \A r \in DOMAIN req :
        /\ Len(req[r].res.sends) <= 1
        /\ req[r].pc \in {"done", "rejected"} => Len(req[r].res.sends) = 1
        /\ req[r].error.kind = "caught" =>
              /\ Len(HandlerResponses(req[r])) = 1
              /\ DOMAIN HandlerResponses(req[r])[1].data.f = {"status", "message"}

\* The status the claim gives an error: its own statusCode when numeric,
\* 500 otherwise.
NumericStatusOr500(error) ==
    IF ~Nullish(error) /\ Get(error, "statusCode").t = "number"
    THEN Get(error, "statusCode")
    ELSE Num(500)

\* C7: every error reaching the outer boundary is rendered once as
\* { status, message } with status the HTTP status sent, the error's own
\* numeric status code or else 500, and the error's message unmodified.
UniformErrorRendering ==
    \A r \in DOMAIN req :
        req[r].error.kind = "caught" =>
            LET error == req[r].error.value
                status == NumericStatusOr500(error)
                message == IF Nullish(error) THEN Undefined
                           ELSE Get(error, "message")
            IN  HandlerResponses(req[r]) =
                    <<[status |-> status,
                       data |-> Obj([status |-> status, message |-> message])]>>

\* C8: an OPTIONS request never reaches the method dispatch: no error is
\* raised for it and it is never answered 405.
PreflightSkipsDispatch ==
    \A r \in DOMAIN req :
        req[r].method = "OPTIONS" =>
            /\ req[r].error.kind = "none"
            /\ \A i \in 1..Len(req[r].res.sends) :
                    req[r].res.sends[i].status # Num(405)

\* The 405 message of each unsupported method, spelled out.
NotAllowedMessage(method) ==
    CASE method = "PUT" -> "Method PUT not allowed."
      [] method = "DELETE" -> "Method DELETE not allowed."
      [] method = "OPTIONS" -> "Method OPTIONS not allowed."

\* C9: a method other than GET and POST yields exactly the response 405
\* "Method <METHOD> not allowed." and no check or backend call.
UnsupportedMethodIs405 ==
    \A r \in DOMAIN req :
        req[r].method \in {"PUT", "DELETE", "OPTIONS"} =>
            /\ req[r].pc = "done"
            /\ Responses(req[r]) = <<Envelope(405, NotAllowedMessage(req[r].method))>>
            /\ req[r].calls = [json |-> 0, analyze |-> 0, checkSpam |-> 0]
            /\ req[r].backendArgs = <<>>

\* C9 witness: a DELETE request has been answered.
UnsupportedMethodIs405Witness ==
    \E r \in DOMAIN req : req[r].method = "DELETE" /\ req[r].pc = "done"

\* C10: every response sent, success or error, carries the cross-origin
\* headers allowing GET, POST, OPTIONS: they are on the handle before any
\* send.
EveryResponseCarriesCors ==
    \A r \in DOMAIN req :
        \A i \in 1..Len(req[r].res.sends) :
            req[r].res.sends[i].headers = <<"GET", "POST", "OPTIONS">>

\* C10 witness: an error response, the 422 of validation rendered by the
\* outer boundary, has been sent.
EveryResponseCarriesCorsWitness ==
    \E r \in DOMAIN req :
        /\ req[r].error.kind = "caught"
        /\ Len(req[r].res.sends) = 1
        /\ req[r].res.sends[1].status = Num(422)

----------------------------------------------------------------------------
\* C11: a GET request is answered 200 with the info envelope (message,
\* core.version and the two flags) and calls neither the body parser, nor a
\* checker, nor the backend, whatever the flags.
GetAnswersInfo ==
    \A r \in DOMAIN req :
        req[r].method = "GET" =>
            /\ req[r].pc = "done"
            /\ Len(req[r].res.sends) = 1
            /\ req[r].res.sends[1].status = Num(200)
            /\ LET data == req[r].res.sends[1].data
                   core == Get(data, "core")
               IN  /\ Get(data, "message") =
                        Str("Welcome to the microfeedback API. Send a POST request to send feedback.")
                   /\ Get(core, "version") = Str("pkg.version")
                   /\ Get(core, "perspectiveEnabled") = Bool(perspectiveEnabled)
                   /\ Get(core, "akismetEnabled") = Bool(akismetEnabled)
            /\ req[r].calls = [json |-> 0, analyze |-> 0, checkSpam |-> 0]
            /\ req[r].backendArgs = <<>>

\* C11 witness: a GET answered while the toxicity check is enabled and the
\* spam check is not.
GetAnswersInfoWitness ==
    \E r \in DOMAIN req :
        /\ req[r].method = "GET" /\ req[r].pc = "done"
        /\ perspectiveEnabled /\ ~akismetEnabled

----------------------------------------------------------------------------
\* What the toxicity stage of a request produced: { toxicity: score } when
\* the call resolved with a well-formed response, null otherwise.
ToxicityResult(st) ==
    IF st.tox.kind = "resolved" /\ \E x \in Scores : st.tox.value = PerspectiveResponse(x)
    THEN Obj([toxicity |-> Get(Get(Get(Get(st.tox.value, "attributeScores"),
                                      "TOXICITY"), "summaryScore"), "value")])
    ELSE Null

\* The spam verdict of a request: { spam: verdict } when the call resolved
\* with a non-null verdict, null otherwise.
SpamResult(st) ==
    IF st.spamCheck.kind = "resolved" /\ st.spamCheck.value # Null
    THEN Obj([spam |-> st.spamCheck.value])
    ELSE Null

\* The first argument of the i-th backend invocation carries the parsed
\* payload unchanged, the toxicity result and the spam verdict under the
\* field names given.
BackendContextNamed(st, i, names) ==
    LET arg == st.backendArgs[i]
    IN  /\ DOMAIN arg.f = {names.input, names.toxicity, names.akismet}
        /\ Get(arg, names.input) = st.parse.value
        /\ Get(arg, names.toxicity) = ToxicityResult(st)
        /\ Get(arg, names.akismet) = SpamResult(st)

\* C12 as stated: the backend's first argument has exactly the fields
\* input, toxicity and akismet.
BackendContextAsStated ==
    \A r \in DOMAIN req :
        \A i \in 1..Len(req[r].backendArgs) :
            BackendContextNamed(req[r], i,
                [input |-> "input", toxicity |-> "toxicity", akismet |-> "akismet"])

\* C12 amended: on a POST that passed validation and was not spam-blocked
\* the backend's first argument has exactly the fields input, perspective
\* and akismet: the parsed payload with every field unchanged, the toxicity
\* result { toxicity: score } (or null) under perspective, and the spam
\* verdict.
BackendContext ==
    \A r \in DOMAIN req :
        /\ Len(req[r].backendArgs) <= 1
        /\ \A i \in 1..Len(req[r].backendArgs) :
              /\ ValidPost(req[r])
              /\ BackendContextNamed(req[r], i,
                    [input |-> "input", toxicity |-> "perspective",
                     akismet |-> "akismet"])

\* C12 witness: the backend was invoked for a payload with an extra field,
\* a toxicity score and a clean spam verdict.
BackendContextWitness ==
    \E r \in DOMAIN req :
        /\ Len(req[r].backendArgs) = 1
        /\ req[r].parse.value = Obj([body |-> Str("buy pills"), name |-> Str("ann")])
        /\ Get(req[r].backendArgs[1], "perspective") = Obj([toxicity |-> Num(1)])
        /\ Get(req[r].backendArgs[1], "akismet") = Obj([spam |-> Bool(FALSE)])

\* C13: the backend's first argument is the parsed client input itself:
\* its body entry is the body of the request payload (and its name entry
\* the payload's name).
BackendReceivesInput ==
    \A r \in DOMAIN req :
        \A i \in 1..Len(req[r].backendArgs) :
            /\ Get(req[r].backendArgs[i], "body") = Get(req[r].parse.value, "body")
            /\ Get(req[r].backendArgs[i], "name") = Get(req[r].parse.value, "name")

----------------------------------------------------------------------------
\* The bodies of the responses the handler sent for a request.
HandlerBodies(st) ==
    {HandlerResponses(st)[i].data : i \in 1..Len(HandlerResponses(st))}

\* C14 as stated: with attributes supplied, every response of the handler,
\* error responses included, carries backend equal to the attributes.
AttributesInEveryResponse ==
    Truthy(attributes) =>
        \A r \in DOMAIN req :
            \A data \in HandlerBodies(req[r]) : Get(data, "backend") = attributes

\* C14 amended: with attributes supplied, every info (200) and success
\* (201) response carries backend equal to the attributes; an error
\* response is { status, message } without them; without attributes no
\* response has a backend field.
AttributesInInfoAndSuccess ==
    \A r \in DOMAIN req :
        \A data \in HandlerBodies(req[r]) :
            IF req[r].error.kind = "caught"
            THEN DOMAIN data.f = {"status", "message"}
            ELSE IF Truthy(attributes)
            THEN Get(data, "backend") = attributes
            ELSE "backend" \notin DOMAIN data.f

\* C14 witness: with attributes supplied a success response has been sent.
AttributesInInfoAndSuccessWitness ==
    \E r \in DOMAIN req :
        /\ Truthy(attributes)
        /\ req[r].backend.kind = "resolved"
        /\ \E data \in HandlerBodies(req[r]) :
              /\ Get(data, "result") = Str("sent")
              /\ Get(data, "backend") =
                    Obj([name |-> Str("email"), version |-> Str("1.0.0")])

----------------------------------------------------------------------------
\* The non-null half of C15 for the i-th backend invocation: a non-null
\* toxicity field needs the checker enabled and its call succeeded, a
\* non-null spam verdict needs the checker enabled, its call succeeded and a
\* non-null verdict, and is then { spam: <boolean> }.
NonNullMeansChecked(st, i) ==
    LET arg == st.backendArgs[i]
    IN  /\ Get(arg, "perspective") # Null =>
              /\ perspectiveEnabled
              /\ st.tox.kind = "resolved"
              /\ ~ToxicityFailed(st)
        /\ Get(arg, "akismet") # Null =>
              /\ akismetEnabled
              /\ st.spamCheck.kind = "resolved"
              /\ st.spamCheck.value # Null
              /\ Get(arg, "akismet") \in {Obj([spam |-> Bool(b)]) : b \in BOOLEAN}
              /\ Get(arg, "akismet") = Obj([spam |-> st.spamCheck.value])

\* C15 as stated: in every backend invocation a non-null field means the
\* check ran and succeeded, and a null field means the check was disabled or
\* failed.
NullMeansDisabledOrFailed ==
    \A r \in DOMAIN req :
        \A i \in 1..Len(req[r].backendArgs) :
            /\ NonNullMeansChecked(req[r], i)
            /\ Get(req[r].backendArgs[i], "perspective") = Null =>
                  ~perspectiveEnabled \/ ToxicityFailed(req[r])
            /\ Get(req[r].backendArgs[i], "akismet") = Null =>
                  ~akismetEnabled \/ req[r].spamCheck.kind = "rejected"

\* C15 amended: as stated, except that a null spam verdict means the check
\* was disabled, failed, or completed with a null verdict.
NullMeansNoVerdict ==
    \A r \in DOMAIN req :
        \A i \in 1..Len(req[r].backendArgs) :
            /\ NonNullMeansChecked(req[r], i)
            /\ Get(req[r].backendArgs[i], "perspective") = Null =>
                  ~perspectiveEnabled \/ ToxicityFailed(req[r])
            /\ Get(req[r].backendArgs[i], "akismet") = Null =>
                  \/ ~akismetEnabled
                  \/ req[r].spamCheck.kind = "rejected"
                  \/ req[r].spamCheck.kind = "resolved"
                        /\ req[r].spamCheck.value = Null

\* C15 witness: a backend invocation with a toxicity score of 0 (a non-null
\* field) and a null verdict from a spam check that completed.
NullMeansNoVerdictWitness ==
    \E r \in DOMAIN req :
        /\ Len(req[r].backendArgs) = 1
        /\ Get(req[r].backendArgs[1], "perspective") = Obj([toxicity |-> Num(0)])
        /\ Get(req[r].backendArgs[1], "akismet") = Null
        /\ req[r].spamCheck.kind = "resolved"

----------------------------------------------------------------------------
\* The request was blocked as spam.
SpamBlocked(st) ==
    st.error.kind = "caught" /\ st.error.value = createError(400, "Spam detected.")

\* Every enabled check of the request has completed, successfully or not.
ChecksCompleted(st) ==
    /\ perspectiveEnabled => st.tox.kind # "none"
    /\ akismetEnabled => st.spamCheck.kind # "none"

\* The stages a request has gone through respect the order parse,
\* validate, moderate (toxicity, then spam), delegate, respond.
InStageOrder(st) ==
    /\ st.calls.analyze > 0 => ValidPost(st)
    /\ st.calls.checkSpam > 0 =>
          ValidPost(st) /\ (perspectiveEnabled => st.tox.kind # "none")
    /\ st.backendArgs # <<>> =>
          ValidPost(st) /\ ChecksCompleted(st) /\ ~SpamBlocked(st)
    /\ st.backend.kind # "none" => st.backendArgs # <<>>
    /\ (st.method = "POST" /\ st.error.kind = "none" /\ HandlerResponses(st) # <<>>) =>
          st.backend.kind = "resolved"
    /\ SpamBlocked(st) => st.backendArgs = <<>> /\ st.pc = "done"

\* C16: within a request the stages occur in the order parse, validate,
\* moderate, delegate, respond: the backend is invoked only after parsing,
\* validation, every enabled check and the spam decision; and once a request
\* is blocked as spam nothing more of it runs.
StagesInOrder ==
    /\ [](\A r \in DOMAIN req : InStageOrder(req[r]))
    /\ [][\A r \in DOMAIN req : SpamBlocked(req[r]) => req'[r] = req[r]]_vars

\* C16 witness: the backend has been invoked after both checks completed.
StagesInOrderWitness ==
    \E r \in DOMAIN req :
        /\ req[r].backendArgs # <<>>
        /\ perspectiveEnabled /\ akismetEnabled
        /\ req[r].tox.kind = "rejected" /\ req[r].spamCheck.kind = "resolved"

----------------------------------------------------------------------------
\* The handler has finished with the request: its promise resolved (done)
\* or rejected.
Finished(st) == st.pc \in {"done", "rejected"}

\* C17: every request ends with a response: once every external call of
\* the request has settled and the handler has finished, a response
\* (success or { status, message }) has been sent, whatever was thrown.
EveryRequestResponds ==
    \A r \in DOMAIN req :
        Finished(req[r]) => req[r].res.sends # <<>>

\* C18: each checker is called at most once per request, the toxicity
\* check before the spam check, a disabled checker or a request that failed
\* parsing or validation never calls one, and a request that passed
\* validation calls each enabled checker exactly once (the toxicity check at
\* once, the spam check by the time the handler has finished).
SingleAttemptPerChecker ==
    \A r \in DOMAIN req :
        /\ req[r].calls.analyze <= 1 /\ req[r].calls.checkSpam <= 1
        /\ req[r].calls.analyze = 1 <=> (perspectiveEnabled /\ ValidPost(req[r]))
        /\ req[r].calls.checkSpam = 1 =>
              /\ akismetEnabled /\ ValidPost(req[r])
              /\ perspectiveEnabled => req[r].tox.kind # "none"
        /\ (Finished(req[r]) /\ akismetEnabled /\ ValidPost(req[r])) =>
              req[r].calls.checkSpam = 1

----------------------------------------------------------------------------
\* The stages a request ran and the info envelope it got follow the two
\* module flags.
FollowsFlags(st) ==
    /\ ValidPost(st) => (st.calls.analyze = 1 <=> perspectiveEnabled)
    /\ st.calls.checkSpam = 1 => akismetEnabled
    /\ (ValidPost(st) /\ st.backendArgs # <<>>) =>
          (st.calls.checkSpam = 1 <=> akismetEnabled)
    /\ st.method = "GET" =>
          \A i \in 1..Len(st.res.sends) :
              Get(st.res.sends[i].data, "core") =
                  Obj([version |-> Str("pkg.version"),
                       perspectiveEnabled |-> Bool(perspectiveEnabled),
                       akismetEnabled |-> Bool(akismetEnabled)])

\* C20 as stated: the configuration that governs a request is the one
\* established at process start: the override a request applies at the spam
\* gate is the value of process start, and the stages and the info envelope
\* follow the flags of process start.
ConfigReadOnceAtStart ==
    \A r \in DOMAIN req :
        /\ req[r].allowSpam # Undefined => req[r].allowSpam = Bool(allowSpamAtStart)
        /\ FollowsFlags(req[r])

\* C20 amended: the two enablement flags are fixed at process start: no
\* step, in particular no change of the environment, changes them, and the
\* stages and the info envelope follow them; the allow-spam override is read
\* from the environment as it is when the request reaches the spam gate.
FlagsReadOnceOverridePerRequest ==
    /\ [](\A r \in DOMAIN req : FollowsFlags(req[r]))
    /\ [][/\ perspectiveEnabled' = perspectiveEnabled
          /\ akismetEnabled' = akismetEnabled
          /\ \A r \in DOMAIN req :
                (req[r].allowSpam = Undefined /\ req'[r].allowSpam # Undefined) =>
                    req'[r].allowSpam = Bool(AllowSpam(env))]_vars

\* C20 witness: after changes of the environment a request ran the toxicity
\* stage that the environment now disables, and applied an override other
\* than the one of process start.
FlagsReadOnceOverridePerRequestWitness ==
    \E r \in DOMAIN req :
        /\ req[r].calls.analyze = 1
        /\ ~Enabled(env, "PERSPECTIVE_API_KEY", "PERSPECTIVE_ENABLED")
        /\ req[r].allowSpam # Undefined
        /\ req[r].allowSpam # Bool(allowSpamAtStart)

----------------------------------------------------------------------------
\* What a request gets from outside: its method, what each of its external
\* calls settled with, the override it read at the spam gate, whether its
\* backend sent a response itself, and how far it has run.
OwnInputs(st) ==
    <<st.method, st.pc, st.parse, st.tox, st.spamCheck, st.backend, st.allowSpam,
      \E i \in 1..Len(st.res.sends) : st.res.sends[i].by = "backend">>

\* What a request produces: the contexts it handed to the backend, the
\* responses the handler sent and the headers on them.
OwnOutputs(st) == <<st.backendArgs, HandlerResponses(st), st.res.cors>>

\* C19: whatever the interleaving of the requests in flight, (1) two
\* requests with the same inputs and check results have handed the same
\* context to the backend and sent the same responses, (2) the context a
\* request hands over is made of its own payload, its own toxicity result and
\* its own spam verdict, and (3) a step of one request leaves every other
\* request as it was.
RequestsIsolated ==
    /\ [](\A r, q \in DOMAIN req :
            OwnInputs(req[r]) = OwnInputs(req[q]) =>
                OwnOutputs(req[r]) = OwnOutputs(req[q]))
    /\ [](\A r \in DOMAIN req :
            \A i \in 1..Len(req[r].backendArgs) :
                BackendContextNamed(req[r], i,
                    [input |-> "input", toxicity |-> "perspective",
                     akismet |-> "akismet"]))
    /\ [][\A r, q \in DOMAIN req :
            (r # q /\ req'[r] # req[r]) => req'[q] = req[q]]_vars

\* C19 witness: two requests overlap with different results: one is still
\* suspended in the backend with a spam verdict in its context, the other
\* has run past it, was sent its response, and had a failed spam check.
RequestsIsolatedWitness ==
    \E r, q \in DOMAIN req :
        /\ r # q
        /\ req[r].pc = "backend"
        /\ Get(req[r].backendArgs[1], "akismet") = Obj([spam |-> Bool(TRUE)])
        /\ req[q].pc = "done"
        /\ req[q].spamCheck.kind = "rejected"
        /\ Len(req[q].backendArgs) = 1
        /\ Get(req[q].backendArgs[1], "akismet") = Null
        /\ HandlerResponses(req[q]) # <<>>

====
